---- MODULE Spec2Model ----
(***************************************************************************)
(* Offline attendance ledger (src/device/database.py) and hot-reloadable   *)
(* face gallery (src/core/recognizer.py) of the BIO attendance device.     *)
(*                                                                         *)
(* Three specifications share the variables:                               *)
(*   Spec        the ledger: log_attendance calls interleaved with the     *)
(*               steps of a sync_to_mysql call, while the network and the  *)
(*               local store fail and recover;                             *)
(*   SpecBatch   one fault-free sync_to_mysql run on a pre-existing ledger *)
(*               long enough to exceed LIMIT 50;                           *)
(*   SpecGallery reload() running against a concurrent recognize_faces().  *)
(***************************************************************************)
EXTENDS Integers, Sequences, FiniteSets, TLC

(* ------------------------------ bounds -------------------------------- *)

\* Most records log_attendance appends in one behaviour of Spec.
MaxRecords == 3

\* time.time() returns 0..MaxTime ticks.
MaxTime == 1

\* Clock ticks per second: local timestamps are REAL (sub-second), the
\* central DATETIME column holds whole seconds.
TicksPerSecond == 2

\* Most times the local SQLite store becomes unavailable in one behaviour.
MaxOutages == 1

\* Longest pre-existing ledger SpecBatch starts from (longer than LIMIT 50).
MaxLedger == 52

\* A persisted gallery artifact holds 0..MaxGallery entries.
MaxGallery == 1

\* Most reload() calls in one behaviour of SpecGallery.
MaxReloads == 2

\* Records logged in the behaviours of SpecLive and SpecOverlap.
MaxLiveRecords == 2

\* Most rows the detector returns for one frame.
MaxFaces == 2

\* Most entries of the gallery the frames are matched against.
MaxKnown == 2

\* Resolution of the detector's float coordinates: units per pixel.
SubPixel == 2

(* ------------------------- program constants -------------------------- *)

\* LIMIT 50 of the SELECT in sync_to_mysql.
BatchLimit == 50

\* device_id and name arguments of log_attendance.
Devices == {"device-A"}
Names == {"Alice", "Bob"}

\* sync_to_mysql invocations that may be in flight; Spec runs the first alone.
Syncers == {"s1", "s2"}
Worker == "s1"

\* RECOGNITION_THRESHOLD = 0.70, in hundredths.
RECOGNITION_THRESHOLD == 70

\* "if h < 10 or w < 10" of recognize_faces.
MinFrameSide == 10

\* "if image.shape[0] < 10 or image.shape[1] < 10" of align.
MinImageSide == 10

\* "if len(landmarks) != 5" of align.
LandmarkCount == 5

\* StandardFaceAligner(desiredFaceWidth=112, desiredFaceHeight=112)
desiredFaceWidth == 112
desiredFaceHeight == 112

VARIABLES
    ledger,     \* local_attendance table: sequence of rows in rowid order
    central,    \* attendance_log table of the central store: committed rows
    reachable,  \* whether mysql.connector.connect can reach the central store
    localOK,    \* whether sqlite3.connect/execute on the local file succeeds
    outages,    \* how many times the local store has gone unavailable
    logResult,  \* what the last log_attendance call returned: "True" | "False"
                \* ("none" before the first call)
    pc,         \* per sync_to_mysql invocation: where it stands
    records,    \* per invocation: the rows fetched by the SELECT
    idx,        \* per invocation: how many rows have been INSERTed (= len(synced_ids))
    mconn,      \* per invocation: m_conn, "none" | "open" | "closed"
    outcome,    \* per invocation: how the last finished call ended
    orphans,    \* ghost: local ids committed centrally by a call whose local
                \* bulk update then failed
    atStart,    \* ghost: ledger and central table as Init found them
    embeddings_file,   \* persisted embedding array (data/embeddings.npy)
    names_file,        \* persisted name list (data/names.json)
    known_embeddings,  \* FaceRecognizer.known_embeddings: the live reference
    known_names,       \* FaceRecognizer.known_names: the live reference
    rpc,               \* where the reload() call stands
    new_embeddings,    \* reload's local
    new_names,         \* reload's local
    reloadResult,      \* what the last reload() returned: "True" | "False"
    calls,             \* number of reload() calls so far
    before,            \* ghost: the live references when the last reload() began
    mpc,               \* where the matching step of recognize_faces stands
    best_match_idx,    \* the reader's local (1-based here)
    usedEmb,           \* ghost: the array the reader computed its scores from
    usedNames,         \* ghost: the list the reader took the name from
    matchName,         \* the name the reader reported for the face
    frame,             \* recognize_faces: the frame passed in
    in_frame,          \* the rows detector.detect returns for that frame
    detector,          \* FaceRecognizer.detector: "none" | "loaded"
    recognizer,        \* FaceRecognizer.recognizer: "none" | "loaded"
    aligner,           \* module-level aligner: TRUE, or FALSE for None
    fpc,               \* where the recognize_faces call stands
    fi,                \* position of "for face in faces" (1-based)
    face_locations,    \* recognize_faces' local, then its first result
    face_names,        \* recognize_faces' local, then its second result
    fate,              \* ghost: what the last step of the call ran into
    scores,            \* the scores computed for the last face matched
    callResult,        \* "none" | "returned" | "raised"
    image,             \* align: the image passed in
    landmarks,         \* align: the landmarks passed in
    tform,             \* what cv2.estimateAffinePartial2D yields for them
    warped,            \* what cv2.warpAffine yields for them
    apc,               \* where the align call stands
    aligned_face       \* what align returned

ledgerVars == <<ledger, central, reachable, localOK, outages, logResult,
                pc, records, idx, mconn, outcome, orphans, atStart>>

galleryVars == <<embeddings_file, names_file, known_embeddings, known_names,
                 rpc, new_embeddings, new_names, reloadResult, calls, before,
                 mpc, best_match_idx, usedEmb, usedNames, matchName>>

frameVars == <<frame, in_frame, detector, recognizer, aligner, fpc, fi,
               face_locations, face_names, fate, scores, callResult>>

alignVars == <<image, landmarks, tform, warped, apc, aligned_face>>

vars == <<ledgerVars, galleryVars, frameVars, alignVars>>

(* ------------------------------ helpers ------------------------------- *)

Max(S) == CHOOSE x \in S : \A y \in S : y <= x

\* Mutant of Take: LIMIT off by one.
TakeOneLess(s, n) == SubSeq(s, 1, IF Len(s) < n - 1 THEN Len(s) ELSE n - 1)

\* Mutant of Take: the SELECT carries no LIMIT.
TakeAll(s, n) == s

Take(s, n) == SubSeq(s, 1, IF Len(s) < n THEN Len(s) ELSE n)

\* id INTEGER PRIMARY KEY AUTOINCREMENT: one more than the largest id so far.
\* Mutant of NextId: the id of the newest row is handed out again.
NextIdReused(l) == IF l = <<>> THEN 1 ELSE Max({l[i].id : i \in 1..Len(l)})

NextId(l) == IF l = <<>> THEN 1 ELSE Max({l[i].id : i \in 1..Len(l)}) + 1

\* datetime.fromtimestamp(ts).strftime('%Y-%m-%d %H:%M:%S'): the fraction of
\* a second is dropped.
FormatTimestamp(ts) == ts \div TicksPerSecond

IsUnsynced(r) == r.synced = FALSE

\* Mutant of SelectUnsynced: the WHERE synced = 0 is missing.
SelectAnySynced(l) ==
    Take([i \in 1..Len(l) |-> [id |-> l[i].id, timestamp |-> l[i].timestamp,
                               device_id |-> l[i].device_id, name |-> l[i].name]],
         BatchLimit)

\* Mutant of SelectUnsynced: newest first (ORDER BY id DESC).
SelectUnsyncedNewestFirst(l) ==
    LET hit == SelectSeq(l, IsUnsynced)
        row(r) == [id |-> r.id, timestamp |-> r.timestamp,
                   device_id |-> r.device_id, name |-> r.name]
    IN  Take([i \in 1..Len(hit) |-> row(hit[Len(hit) + 1 - i])], BatchLimit)

\* Mutant of SelectUnsynced: the newest record of the table is never fetched
\* (WHERE synced = 0 AND id < MAX(id)).
SelectUnsyncedButNewest(l) ==
    LET hit == SelectSeq(l, LAMBDA r : IsUnsynced(r) /\ r.id # l[Len(l)].id)
        row(r) == [id |-> r.id, timestamp |-> r.timestamp,
                   device_id |-> r.device_id, name |-> r.name]
    IN  Take([i \in 1..Len(hit) |-> row(hit[i])], BatchLimit)

\* SELECT id, timestamp, device_id, name FROM local_attendance
\*   WHERE synced = 0 LIMIT 50
\* The table has no index but its rowid, so the scan is in ascending id.
SelectUnsynced(l) ==
    LET hit == SelectSeq(l, IsUnsynced)
        row(r) == [id |-> r.id, timestamp |-> r.timestamp,
                   device_id |-> r.device_id, name |-> r.name]
    IN  Take([i \in 1..Len(hit) |-> row(hit[i])], BatchLimit)

\* The row INSERTed into attendance_log for a fetched local row.  src is a
\* ghost field (the central table has no such column): the local id the row
\* was made from.
CentralRow(r) == [timestamp |-> FormatTimestamp(r.timestamp),
                  device_id |-> r.device_id, name |-> r.name, synced |-> 1,
                  src |-> r.id]

\* synced_ids after idx[s] iterations of the upload loop.
SyncedIds(s) == {records[s][i].id : i \in 1..idx[s]}

\* The rows INSERTed so far in the open central transaction.
TxnRows(s) == [i \in 1..idx[s] |-> CentralRow(records[s][i])]

\* Mutant of MarkSynced: the UPDATE has no WHERE clause.
MarkEverySynced(l, ids) ==
    [i \in 1..Len(l) |-> [l[i] EXCEPT !.synced = TRUE]]

\* Mutant of MarkSynced: the flag is overwritten with "is in this batch".
MarkOnlyBatch(l, ids) ==
    [i \in 1..Len(l) |-> [l[i] EXCEPT !.synced = (l[i].id \in ids)]]

\* UPDATE local_attendance SET synced = 1 WHERE id = ?  for every id in ids.
MarkSynced(l, ids) ==
    [i \in 1..Len(l) |-> IF l[i].id \in ids THEN [l[i] EXCEPT !.synced = TRUE]
                         ELSE l[i]]

(* ------------------------------ gallery ------------------------------- *)
(* A persisted artifact is missing, unreadable, or holds n entries (rows of  *)
(* the array, strings of the list).  An object in memory is what a load     *)
(* made of an artifact: its length n and, as a ghost field, gen: the        *)
(* reload() call that loaded it (0 for the constructor).                    *)

Missing == [kind |-> "missing", n |-> 0]
Corrupt == [kind |-> "corrupt", n |-> 0]
Stored(k) == [kind |-> "ok", n |-> k]
Artifacts == {Missing, Corrupt} \cup {Stored(k) : k \in 0..MaxGallery}

\* self.known_embeddings = [] / self.known_names = [] of __init__.
EmptyList == [gen |-> 0, n |-> 0]
NoObject == [gen |-> 0, n |-> 0]

Loaded(a, g) == [gen |-> g, n |-> a.n]

\* What recognize_faces reports for a face: "Unknown", or the string at
\* index i of a name list.
Unknown == [kind |-> "Unknown", gen |-> 0, at |-> 0]
NoName == [kind |-> "none", gen |-> 0, at |-> 0]
NameAt(list, i) == [kind |-> "name", gen |-> list.gen, at |-> i]

\* os.path.exists(...)
Exists(a) == a.kind # "missing"

\* np.load / json.load return normally.
Readable(a) == a.kind = "ok"

\* _load_database(): both files are loaded in place; any failure empties both.
LoadDatabase(e, m) ==
    IF Exists(e) /\ Exists(m) /\ Readable(e) /\ Readable(m)
    THEN <<Loaded(e, 0), Loaded(m, 0)>>
    ELSE <<EmptyList, EmptyList>>

ReaderIdle ==
    /\ mpc = "idle"
    /\ best_match_idx = 0
    /\ usedEmb = NoObject
    /\ usedNames = NoObject
    /\ matchName = NoName

ReloadIdle ==
    /\ rpc = "idle"
    /\ new_embeddings = NoObject
    /\ new_names = NoObject
    /\ reloadResult = "none"
    /\ calls = 0

\* The gallery part of the state in the specifications that do not run it.
GalleryAtRest ==
    /\ embeddings_file = Missing
    /\ names_file = Missing
    /\ known_embeddings = EmptyList
    /\ known_names = EmptyList
    /\ before = <<EmptyList, EmptyList>>
    /\ ReloadIdle
    /\ ReaderIdle

(* ------------------------- frames and images -------------------------- *)
(* An image is None or has a height and a width.  A row of the detector's   *)
(* output is a box in float coordinates, kept here in units of 1/SubPixel   *)
(* pixel; x stands for its position.                                        *)

NoImage == [kind |-> "none", h |-> 0, w |-> 0]
Image(h, w) == [kind |-> "image", h |-> h, w |-> w]

NoLandmarks == [kind |-> "none", count |-> 0, finite |-> TRUE]
Landmarks(c, f) == [kind |-> "array", count |-> c, finite |-> f]

NoFate == [stage |-> "none", how |-> "none"]
Fate(stage, how) == [stage |-> stage, how |-> how]

\* The frame part of the state in the specifications that do not run it.
FrameAtRest ==
    /\ frame = NoImage
    /\ in_frame = <<>>
    /\ detector = "none"
    /\ recognizer = "none"
    /\ aligner = TRUE
    /\ fpc = "idle"
    /\ fi = 0
    /\ face_locations = <<>>
    /\ face_names = <<>>
    /\ fate = NoFate
    /\ scores = <<>>
    /\ callResult = "none"

AlignAtRest ==
    /\ image = NoImage
    /\ landmarks = NoLandmarks
    /\ tform = "None"
    /\ warped = "None"
    /\ apc = "idle"
    /\ aligned_face = NoImage

(* ------------------------------- Init --------------------------------- *)

SyncIdle ==
    /\ pc = [s \in Syncers |-> "idle"]
    /\ records = [s \in Syncers |-> <<>>]
    /\ idx = [s \in Syncers |-> 0]
    /\ mconn = [s \in Syncers |-> "none"]
    /\ outcome = [s \in Syncers |-> "none"]
    /\ orphans = {}

\* LocalDatabase(): CREATE TABLE IF NOT EXISTS on a fresh file.
Init ==
    /\ ledger = <<>>
    /\ central = <<>>
    /\ reachable \in BOOLEAN
    /\ localOK = TRUE
    /\ outages = 0
    /\ logResult = "none"
    /\ SyncIdle
    /\ atStart = [ledger |-> ledger, central |-> central]
    /\ GalleryAtRest
    /\ FrameAtRest
    /\ AlignAtRest

(* ---------------------------- environment ----------------------------- *)

NetDown ==
    /\ reachable
    /\ reachable' = FALSE
    /\ UNCHANGED <<ledger, central, localOK, outages, logResult,
                   pc, records, idx, mconn, outcome, orphans, atStart, galleryVars,
                   frameVars, alignVars>>

NetUp ==
    /\ ~reachable
    /\ reachable' = TRUE
    /\ UNCHANGED <<ledger, central, localOK, outages, logResult,
                   pc, records, idx, mconn, outcome, orphans, atStart, galleryVars,
                   frameVars, alignVars>>

LocalDown ==
    /\ localOK
    /\ outages < MaxOutages
    /\ localOK' = FALSE
    /\ outages' = outages + 1
    /\ UNCHANGED <<ledger, central, reachable, logResult,
                   pc, records, idx, mconn, outcome, orphans, atStart, galleryVars,
                   frameVars, alignVars>>

LocalUp ==
    /\ ~localOK
    /\ localOK' = TRUE
    /\ UNCHANGED <<ledger, central, reachable, outages, logResult,
                   pc, records, idx, mconn, outcome, orphans, atStart, galleryVars,
                   frameVars, alignVars>>

(* --------------------------- log_attendance --------------------------- *)

\* time.time() does not run backwards: no earlier than the last record's.
ClockReadings ==
    (IF ledger = <<>> THEN 0 ELSE ledger[Len(ledger)].timestamp)..MaxTime

NewRecord(ts, d, n) == [id |-> NextId(ledger), timestamp |-> ts, device_id |-> d,
                        name |-> n, synced |-> FALSE]

\* Mutant of LogBody: the call also needs the central store.
LogBodyNeedsCentral(ts, d, n) ==
    IF localOK /\ reachable
    THEN /\ ledger' = Append(ledger, NewRecord(ts, d, n))
         /\ logResult' = "True"
    ELSE /\ ledger' = ledger
         /\ logResult' = "False"

\* Mutant of LogBody: the failed call leaves its row behind.
LogBodyKeepsRow(ts, d, n) ==
    IF localOK
    THEN /\ ledger' = Append(ledger, NewRecord(ts, d, n))
         /\ logResult' = "True"
    ELSE /\ ledger' = Append(ledger, NewRecord(ts, d, n))
         /\ logResult' = "False"

\* INSERT ... VALUES (?, ?, ?, 0); commit; return True -- or, on any
\* exception of the local store, return False.
LogBody(ts, d, n) ==
    IF localOK
    THEN /\ ledger' = Append(ledger, NewRecord(ts, d, n))
         /\ logResult' = "True"
    ELSE /\ ledger' = ledger
         /\ logResult' = "False"

log_attendance(d, n) ==
    /\ Len(ledger) < MaxRecords
    /\ \E ts \in ClockReadings : LogBody(ts, d, n)
    /\ UNCHANGED <<central, reachable, localOK, outages,
                   pc, records, idx, mconn, outcome, orphans, atStart, galleryVars,
                   frameVars, alignVars>>

(* ---------------------------- sync_to_mysql --------------------------- *)

\* The call returns: its locals (records, synced_ids, m_conn) die.
Return(s, how) ==
    /\ pc' = [pc EXCEPT ![s] = "idle"]
    /\ records' = [records EXCEPT ![s] = <<>>]
    /\ idx' = [idx EXCEPT ![s] = 0]
    /\ mconn' = [mconn EXCEPT ![s] = "none"]
    /\ outcome' = [outcome EXCEPT ![s] = how]

\* 1. Get unsynced records; "if not records: return".
SyncSelect(s) ==
    /\ pc[s] = "idle"
    /\ localOK
    /\ LET got == SelectUnsynced(ledger)
       IN  IF got = <<>>
           THEN Return(s, "noop")
           ELSE /\ pc' = [pc EXCEPT ![s] = "connect"]
                /\ records' = [records EXCEPT ![s] = got]
                /\ idx' = [idx EXCEPT ![s] = 0]
                /\ mconn' = [mconn EXCEPT ![s] = "none"]
                /\ outcome' = [outcome EXCEPT ![s] = "running"]
    /\ UNCHANGED <<ledger, central, reachable, localOK, outages, logResult,
                   orphans, atStart, galleryVars,
                   frameVars, alignVars>>

\* "except Exception as e: logger.error(Read error); return"
SyncSelectError(s) ==
    /\ pc[s] = "idle"
    /\ ~localOK
    /\ Return(s, "read_error")
    /\ UNCHANGED <<ledger, central, reachable, localOK, outages, logResult,
                   orphans, atStart, galleryVars,
                   frameVars, alignVars>>

\* 2. Connect to MySQL (connection_timeout=2).
SyncConnect(s) ==
    /\ pc[s] = "connect"
    /\ reachable
    /\ mconn' = [mconn EXCEPT ![s] = "open"]
    /\ pc' = [pc EXCEPT ![s] = "upload"]
    /\ UNCHANGED <<ledger, central, reachable, localOK, outages, logResult,
                   records, idx, outcome, orphans, atStart, galleryVars,
                   frameVars, alignVars>>

\* Mutant of SyncConnectFail: the failed connect falls through to step 4.
SyncConnectFailMarks(s) ==
    /\ pc[s] = "connect"
    /\ ~reachable
    /\ ledger' = MarkSynced(ledger, {records[s][i].id : i \in 1..Len(records[s])})
    /\ Return(s, "offline")
    /\ UNCHANGED <<central, reachable, localOK, outages, logResult,
                   orphans, atStart, galleryVars,
                   frameVars, alignVars>>

\* "except: return  # Offline"
SyncConnectFail(s) ==
    /\ pc[s] = "connect"
    /\ ~reachable
    /\ Return(s, "offline")
    /\ UNCHANGED <<ledger, central, reachable, localOK, outages, logResult,
                   orphans, atStart, galleryVars,
                   frameVars, alignVars>>

\* 3. Upload: one iteration of "for row in records": INSERT into the open
\* central transaction and synced_ids.append(id).
SyncInsert(s) ==
    /\ pc[s] = "upload"
    /\ idx[s] < Len(records[s])
    /\ reachable
    /\ idx' = [idx EXCEPT ![s] = idx[s] + 1]
    /\ UNCHANGED <<ledger, central, reachable, localOK, outages, logResult,
                   pc, records, mconn, outcome, orphans, atStart, galleryVars,
                   frameVars, alignVars>>

\* Mutant of SyncInsertFail: the connection runs with autocommit, so the rows
\* inserted before the failure stay.
SyncInsertFailAutocommit(s) ==
    /\ pc[s] = "upload"
    /\ idx[s] < Len(records[s])
    /\ ~reachable
    /\ central' = central \o TxnRows(s)
    /\ Return(s, "error")
    /\ UNCHANGED <<ledger, reachable, localOK, outages, logResult,
                   orphans, atStart, galleryVars,
                   frameVars, alignVars>>

\* m_cursor.execute raises: "except Exception: if m_conn: m_conn.close()".
\* Closing the connection rolls the uncommitted transaction back.
SyncInsertFail(s) ==
    /\ pc[s] = "upload"
    /\ idx[s] < Len(records[s])
    /\ ~reachable
    /\ Return(s, "error")
    /\ UNCHANGED <<ledger, central, reachable, localOK, outages, logResult,
                   orphans, atStart, galleryVars,
                   frameVars, alignVars>>

\* Mutant of SyncCommit: the central table refuses a second row made from
\* the same local id.
SyncCommitDeduplicated(s) ==
    /\ pc[s] = "upload"
    /\ idx[s] = Len(records[s])
    /\ reachable
    /\ central' = central \o
          SelectSeq(TxnRows(s),
                    LAMBDA r : \A j \in 1..Len(central) : central[j].src # r.src)
    /\ mconn' = [mconn EXCEPT ![s] = "closed"]
    /\ pc' = [pc EXCEPT ![s] = "mark"]
    /\ UNCHANGED <<ledger, reachable, localOK, outages, logResult,
                   records, idx, outcome, orphans, atStart, galleryVars,
                   frameVars, alignVars>>

\* m_conn.commit(); m_conn.close()
SyncCommit(s) ==
    /\ pc[s] = "upload"
    /\ idx[s] = Len(records[s])
    /\ reachable
    /\ central' = central \o TxnRows(s)
    /\ mconn' = [mconn EXCEPT ![s] = "closed"]
    /\ pc' = [pc EXCEPT ![s] = "mark"]
    /\ UNCHANGED <<ledger, reachable, localOK, outages, logResult,
                   records, idx, outcome, orphans, atStart, galleryVars,
                   frameVars, alignVars>>

\* m_conn.commit() raises: nothing of the transaction becomes visible.
SyncCommitFail(s) ==
    /\ pc[s] = "upload"
    /\ idx[s] = Len(records[s])
    /\ ~reachable
    /\ Return(s, "error")
    /\ UNCHANGED <<ledger, central, reachable, localOK, outages, logResult,
                   orphans, atStart, galleryVars,
                   frameVars, alignVars>>

\* Mutant of SyncMark: the update names no ids (WHERE synced = 0).
SyncMarkAllUnsynced(s) ==
    /\ pc[s] = "mark"
    /\ localOK
    /\ ledger' = [i \in 1..Len(ledger) |-> [ledger[i] EXCEPT !.synced = TRUE]]
    /\ Return(s, "synced")
    /\ UNCHANGED <<central, reachable, localOK, outages, logResult,
                   orphans, atStart, galleryVars,
                   frameVars, alignVars>>

\* 4. Mark as synced in SQLite: executemany + commit, one local transaction.
SyncMark(s) ==
    /\ pc[s] = "mark"
    /\ localOK
    /\ ledger' = MarkSynced(ledger, SyncedIds(s))
    /\ Return(s, "synced")
    /\ UNCHANGED <<central, reachable, localOK, outages, logResult,
                   orphans, atStart, galleryVars,
                   frameVars, alignVars>>

\* The local connect/executemany/commit raises after the central commit (the
\* process dying here leaves the same durable state): the handler logs and the
\* call ends with nothing marked.
SyncMarkFail(s) ==
    /\ pc[s] = "mark"
    /\ ~localOK
    /\ orphans' = orphans \cup SyncedIds(s)
    /\ Return(s, "error")
    /\ UNCHANGED <<ledger, central, reachable, localOK, outages, logResult,
                   atStart, galleryVars,
                   frameVars, alignVars>>

(* ------------------------------- Spec --------------------------------- *)

Next ==
    \/ NetDown
    \/ NetUp
    \/ LocalDown
    \/ LocalUp
    \/ \E d \in Devices, n \in Names : log_attendance(d, n)
    \/ SyncSelect(Worker)
    \/ SyncSelectError(Worker)
    \/ SyncConnect(Worker)
    \/ SyncConnectFail(Worker)
    \/ SyncInsert(Worker)
    \/ SyncInsertFail(Worker)
    \/ SyncCommit(Worker)
    \/ SyncCommitFail(Worker)
    \/ SyncMark(Worker)
    \/ SyncMarkFail(Worker)

Spec == Init /\ [][Next]_vars

\* The steps of a sync_to_mysql call that is under way: once called, the
\* function runs to one of its returns (every blocking call in it is bounded:
\* connection_timeout=2, local file operations).
SyncRun ==
    \/ SyncConnect(Worker)
    \/ SyncConnectFail(Worker)
    \/ SyncInsert(Worker)
    \/ SyncInsertFail(Worker)
    \/ SyncCommit(Worker)
    \/ SyncCommitFail(Worker)
    \/ SyncMark(Worker)
    \/ SyncMarkFail(Worker)

NextLive ==
    \/ NetDown
    \/ NetUp
    \/ LocalDown
    \/ LocalUp
    \/ \E d \in Devices, n \in Names :
          Len(ledger) < MaxLiveRecords /\ log_attendance(d, n)
    \/ SyncSelect(Worker)
    \/ SyncSelectError(Worker)
    \/ SyncRun

\* The ledger with the guarantee that a call under way is not suspended
\* forever.
SpecLive == Init /\ [][NextLive]_vars /\ WF_vars(SyncRun)

(* ---------------------------- SpecOverlap ----------------------------- *)
(* Two sync_to_mysql calls that may overlap (two threads, or two processes  *)
(* on the same ledger file), with log_attendance in between, the central    *)
(* store reachable and nothing failing.                                     *)

InitOverlap ==
    /\ Init
    /\ reachable

NextOverlap ==
    \/ \E d \in Devices, n \in Names :
          Len(ledger) < MaxLiveRecords /\ log_attendance(d, n)
    \/ \E s \in Syncers : SyncSelect(s)
    \/ \E s \in Syncers : SyncConnect(s)
    \/ \E s \in Syncers : SyncInsert(s)
    \/ \E s \in Syncers : SyncCommit(s)
    \/ \E s \in Syncers : SyncMark(s)

SpecOverlap == InitOverlap /\ [][NextOverlap]_vars

(* ----------------------------- SpecBatch ------------------------------ *)
(* One fault-free sync_to_mysql call on a ledger file that already holds   *)
(* L records, the oldest k of them synced earlier.                         *)

BatchRecord(i, k) ==
    [id |-> i, timestamp |-> i % (MaxTime + 1),
     device_id |-> IF i % 3 = 0 THEN "device-B" ELSE "device-A",
     name |-> IF i % 2 = 0 THEN "Bob" ELSE "Alice",
     synced |-> (i <= k)]

InitBatch ==
    /\ \E L \in 0..MaxLedger : \E k \in 0..L :
          /\ ledger = [i \in 1..L |-> BatchRecord(i, k)]
          /\ central = [i \in 1..k |-> CentralRow(BatchRecord(i, k))]
    /\ reachable = TRUE
    /\ localOK = TRUE
    /\ outages = 0
    /\ logResult = "none"
    /\ SyncIdle
    /\ atStart = [ledger |-> ledger, central |-> central]
    /\ GalleryAtRest
    /\ FrameAtRest
    /\ AlignAtRest

NextBatch ==
    \/ SyncSelect(Worker)
    \/ SyncConnect(Worker)
    \/ SyncInsert(Worker)
    \/ SyncCommit(Worker)
    \/ SyncMark(Worker)

SpecBatch == InitBatch /\ [][NextBatch]_vars

(* ---------------------------- SpecGallery ---------------------------- *)

LedgerAtRest ==
    /\ ledger = <<>>
    /\ central = <<>>
    /\ reachable = TRUE
    /\ localOK = TRUE
    /\ outages = 0
    /\ logResult = "none"
    /\ SyncIdle
    /\ atStart = [ledger |-> ledger, central |-> central]

\* FaceRecognizer(): known_* = [] and then _load_database() on whatever the
\* data directory holds.
InitGallery ==
    /\ LedgerAtRest
    /\ FrameAtRest
    /\ AlignAtRest
    /\ embeddings_file \in Artifacts
    /\ names_file \in Artifacts
    /\ known_embeddings = LoadDatabase(embeddings_file, names_file)[1]
    /\ known_names = LoadDatabase(embeddings_file, names_file)[2]
    /\ before = <<known_embeddings, known_names>>
    /\ ReloadIdle
    /\ ReaderIdle

\* The enrolment tool (outside src/) rewrites, truncates or removes a file.
WriteEmbeddings(a) ==
    /\ embeddings_file # a
    /\ embeddings_file' = a
    /\ UNCHANGED <<ledgerVars, frameVars, alignVars, names_file, known_embeddings, known_names,
                   rpc, new_embeddings, new_names, reloadResult, calls, before,
                   mpc, best_match_idx, usedEmb, usedNames, matchName>>

WriteNames(a) ==
    /\ names_file # a
    /\ names_file' = a
    /\ UNCHANGED <<ledgerVars, frameVars, alignVars, embeddings_file, known_embeddings, known_names,
                   rpc, new_embeddings, new_names, reloadResult, calls, before,
                   mpc, best_match_idx, usedEmb, usedNames, matchName>>

\* reload() returns: its locals die.
ReloadReturn(r) ==
    /\ rpc' = "idle"
    /\ new_embeddings' = NoObject
    /\ new_names' = NoObject
    /\ reloadResult' = r

\* "if os.path.exists(embeddings_file) and os.path.exists(names_file)";
\* otherwise fall through to "return False".
ReloadBegin ==
    /\ rpc = "idle"
    /\ calls < MaxReloads
    /\ calls' = calls + 1
    /\ before' = <<known_embeddings, known_names>>
    /\ IF Exists(embeddings_file) /\ Exists(names_file)
       THEN /\ rpc' = "load_embeddings"
            /\ reloadResult' = "running"
            /\ UNCHANGED <<new_embeddings, new_names>>
       ELSE ReloadReturn("False")
    /\ UNCHANGED <<ledgerVars, frameVars, alignVars, embeddings_file, names_file, known_embeddings,
                   known_names, mpc, best_match_idx, usedEmb, usedNames,
                   matchName>>

\* new_embeddings = np.load(self.embeddings_file); an exception is caught by
\* "except Exception" and the call returns False.
ReloadLoadEmbeddings ==
    /\ rpc = "load_embeddings"
    /\ IF Readable(embeddings_file)
       THEN /\ new_embeddings' = Loaded(embeddings_file, calls)
            /\ rpc' = "load_names"
            /\ UNCHANGED <<new_names, reloadResult>>
       ELSE ReloadReturn("False")
    /\ UNCHANGED <<ledgerVars, frameVars, alignVars, embeddings_file, names_file, known_embeddings,
                   known_names, calls, before, mpc, best_match_idx, usedEmb,
                   usedNames, matchName>>

\* Mutant of ReloadLoadNames: on failure the gallery is emptied, as
\* _load_database does.
ReloadLoadNamesEmpties ==
    /\ rpc = "load_names"
    /\ IF Readable(names_file)
       THEN /\ new_names' = Loaded(names_file, calls)
            /\ rpc' = "set_embeddings"
            /\ UNCHANGED <<new_embeddings, reloadResult, known_embeddings,
                           known_names>>
       ELSE /\ ReloadReturn("False")
            /\ known_embeddings' = EmptyList
            /\ known_names' = EmptyList
    /\ UNCHANGED <<ledgerVars, frameVars, alignVars, embeddings_file, names_file, calls, before,
                   mpc, best_match_idx, usedEmb, usedNames, matchName>>

\* new_names = json.load(f)
ReloadLoadNames ==
    /\ rpc = "load_names"
    /\ IF Readable(names_file)
       THEN /\ new_names' = Loaded(names_file, calls)
            /\ rpc' = "set_embeddings"
            /\ UNCHANGED <<new_embeddings, reloadResult>>
       ELSE ReloadReturn("False")
    /\ UNCHANGED <<known_embeddings, known_names>>
    /\ UNCHANGED <<ledgerVars, frameVars, alignVars, embeddings_file, names_file, calls, before,
                   mpc, best_match_idx, usedEmb, usedNames, matchName>>

\* self.known_embeddings = new_embeddings
ReloadSetEmbeddings ==
    /\ rpc = "set_embeddings"
    /\ known_embeddings' = new_embeddings
    /\ rpc' = "set_names"
    /\ UNCHANGED <<ledgerVars, frameVars, alignVars, embeddings_file, names_file, known_names,
                   new_embeddings, new_names, reloadResult, calls, before,
                   mpc, best_match_idx, usedEmb, usedNames, matchName>>

\* self.known_names = new_names; logger.info(...); return True
ReloadSetNames ==
    /\ rpc = "set_names"
    /\ known_names' = new_names
    /\ ReloadReturn("True")
    /\ UNCHANGED <<ledgerVars, frameVars, alignVars, embeddings_file, names_file, known_embeddings,
                   calls, before, mpc, best_match_idx, usedEmb, usedNames,
                   matchName>>

\* The reader is done with the face: face_names.append(name).
MatchDone(name) ==
    /\ mpc' = "idle"
    /\ best_match_idx' = 0
    /\ matchName' = name

\* "if len(self.known_embeddings) > 0" for a new face.
MatchBegin ==
    /\ mpc = "idle"
    /\ usedEmb' = NoObject
    /\ usedNames' = NoObject
    /\ IF known_embeddings.n > 0
       THEN /\ mpc' = "scores"
            /\ matchName' = NoName
            /\ UNCHANGED best_match_idx
       ELSE MatchDone(Unknown)
    /\ UNCHANGED <<ledgerVars, frameVars, alignVars, embeddings_file, names_file, known_embeddings,
                   known_names, rpc, new_embeddings, new_names, reloadResult,
                   calls, before>>

\* scores = np.dot(self.known_embeddings, ...); best_match_idx = argmax;
\* "if max_score > RECOGNITION_THRESHOLD".  Which index wins and whether it
\* clears the threshold depend on the face.  np.argmax of an empty array
\* raises, which "except Exception" turns into "Unknown".
MatchScores ==
    /\ mpc = "scores"
    /\ usedEmb' = known_embeddings
    /\ \/ /\ known_embeddings.n > 0
          /\ \E i \in 1..known_embeddings.n :
                /\ best_match_idx' = i
                /\ mpc' = "name"
                /\ UNCHANGED matchName
       \/ MatchDone(Unknown)
    /\ UNCHANGED usedNames
    /\ UNCHANGED <<ledgerVars, frameVars, alignVars, embeddings_file, names_file, known_embeddings,
                   known_names, rpc, new_embeddings, new_names, reloadResult,
                   calls, before>>

\* name = self.known_names[best_match_idx]; an IndexError is caught and the
\* face stays "Unknown".
MatchName ==
    /\ mpc = "name"
    /\ usedNames' = known_names
    /\ IF best_match_idx <= known_names.n
       THEN MatchDone(NameAt(known_names, best_match_idx))
       ELSE MatchDone(Unknown)
    /\ UNCHANGED usedEmb
    /\ UNCHANGED <<ledgerVars, frameVars, alignVars, embeddings_file, names_file, known_embeddings,
                   known_names, rpc, new_embeddings, new_names, reloadResult,
                   calls, before>>

NextGallery ==
    \/ \E a \in Artifacts : WriteEmbeddings(a)
    \/ \E a \in Artifacts : WriteNames(a)
    \/ ReloadBegin
    \/ ReloadLoadEmbeddings
    \/ ReloadLoadNames
    \/ ReloadSetEmbeddings
    \/ ReloadSetNames
    \/ MatchBegin
    \/ MatchScores
    \/ MatchName

SpecGallery == InitGallery /\ [][NextGallery]_vars

(* ---------------------------- SpecProcess ---------------------------- *)
(* One recognize_faces call on one frame, gallery and models as the         *)
(* constructor left them.                                                   *)

\* _load_models(): both stay None unless both model files exist.
LoadModels(yunet, sface) ==
    IF yunet /\ sface THEN <<"loaded", "loaded">> ELSE <<"none", "none">>

\* Sides of a detected box: negative, positive below one pixel, one pixel.
Sides == {-SubPixel, 1, SubPixel}

FrameSides == {0, MinFrameSide - 1, MinFrameSide}

\* Scores a face can have against a gallery row, in hundredths.
ScoreValues == {RECOGNITION_THRESHOLD - 1, RECOGNITION_THRESHOLD,
                RECOGNITION_THRESHOLD + 1}

\* ndarray.astype(int): truncation toward zero.
AsInt(v) == IF v >= 0 THEN v \div SubPixel ELSE -((-v) \div SubPixel)

\* box = face[:4].astype(int)
Box(d) == [x |-> d.x, w |-> AsInt(d.w), h |-> AsInt(d.h)]

\* "if w_box <= 0 or h_box <= 0: continue" lets the box through.
BoxOK(d) == ~(Box(d).w <= 0 \/ Box(d).h <= 0)

\* "frame is None or frame.size == 0"
FrameEmpty(f) == f.kind = "none" \/ f.h * f.w = 0

\* np.argmax: the first index that holds the maximum (1-based here).
ArgMax(sc) ==
    CHOOSE i \in 1..Len(sc) :
       /\ \A j \in 1..Len(sc) : sc[j] <= sc[i]
       /\ \A j \in 1..(i - 1) : sc[j] < sc[i]

\* Lines 173-179 for one face with scores sc against the live gallery: the
\* name stays "Unknown" unless the best score exceeds the threshold; an
\* IndexError of known_names[best_match_idx] is caught and leaves "Unknown".
Matched(emb, names, sc) ==
    IF emb.n > 0
    THEN LET best == ArgMax(sc)
             max_score == sc[best]
         IN  IF max_score > RECOGNITION_THRESHOLD
             THEN IF best <= names.n
                  THEN NameAt(names, best)
                  ELSE Unknown
             ELSE Unknown
    ELSE Unknown

InitProcess ==
    /\ LedgerAtRest
    /\ AlignAtRest
    /\ embeddings_file \in {Stored(k) : k \in 0..MaxKnown}
    /\ names_file \in {Stored(k) : k \in 0..MaxKnown}
    /\ known_embeddings = LoadDatabase(embeddings_file, names_file)[1]
    /\ known_names = LoadDatabase(embeddings_file, names_file)[2]
    /\ before = <<known_embeddings, known_names>>
    /\ ReloadIdle
    /\ ReaderIdle
    /\ \E yunet, sface \in BOOLEAN :
          /\ detector = LoadModels(yunet, sface)[1]
          /\ recognizer = LoadModels(yunet, sface)[2]
    /\ aligner \in BOOLEAN
    /\ frame \in {NoImage} \cup {Image(h, w) : h, w \in FrameSides}
    /\ IF ~FrameEmpty(frame) /\ frame.h >= MinFrameSide /\ frame.w >= MinFrameSide
       THEN \E n \in 0..MaxFaces :
               \E f \in [1..n -> Sides \X Sides] :
                  in_frame = [i \in 1..n |-> [x |-> i, w |-> f[i][1], h |-> f[i][2]]]
       ELSE in_frame = <<>>
    /\ fpc = "idle"
    /\ fi = 0
    /\ face_locations = <<>>
    /\ face_names = <<>>
    /\ fate = NoFate
    /\ scores = <<>>
    /\ callResult = "none"

\* "return a, b"
ProcessReturn(locs, names) ==
    /\ fpc' = "done"
    /\ face_locations' = locs
    /\ face_names' = names
    /\ callResult' = "returned"

\* Mutant of ProcessBegin: no guard on the models, and the AttributeError of
\* None.setInputSize is not caught.
ProcessBeginNoGuard ==
    /\ fpc = "idle"
    /\ IF FrameEmpty(frame)
       THEN ProcessReturn(<<>>, <<>>) /\ fate' = Fate("frame", "empty")
       ELSE IF detector = "none" \/ recognizer = "none"
       THEN /\ fpc' = "done"
            /\ callResult' = "raised"
            /\ fate' = Fate("models", "none")
            /\ UNCHANGED <<face_locations, face_names>>
       ELSE IF frame.h < MinFrameSide \/ frame.w < MinFrameSide
       THEN ProcessReturn(<<>>, <<>>) /\ fate' = Fate("frame", "small")
       ELSE /\ fpc' = "detect"
            /\ UNCHANGED <<face_locations, face_names, fate, callResult>>
    /\ UNCHANGED <<ledgerVars, galleryVars, alignVars, frame, in_frame,
                   detector, recognizer, aligner, fi, scores>>

\* Lines 98-106: the three early returns.
ProcessBegin ==
    /\ fpc = "idle"
    /\ IF FrameEmpty(frame)
       THEN ProcessReturn(<<>>, <<>>) /\ fate' = Fate("frame", "empty")
       ELSE IF detector = "none" \/ recognizer = "none"
       THEN ProcessReturn(<<>>, <<>>) /\ fate' = Fate("models", "none")
       ELSE IF frame.h < MinFrameSide \/ frame.w < MinFrameSide
       THEN ProcessReturn(<<>>, <<>>) /\ fate' = Fate("frame", "small")
       ELSE /\ fpc' = "detect"
            /\ UNCHANGED <<face_locations, face_names, fate, callResult>>
    /\ UNCHANGED <<ledgerVars, galleryVars, alignVars, frame, in_frame,
                   detector, recognizer, aligner, fi, scores>>

\* detector.setInputSize; _, faces = detector.detect(frame);
\* face_locations = []; face_names = []
Detect ==
    /\ fpc = "detect"
    /\ fpc' = "faces"
    /\ fi' = 1
    /\ face_locations' = <<>>
    /\ face_names' = <<>>
    /\ UNCHANGED <<ledgerVars, galleryVars, alignVars, frame, in_frame,
                   detector, recognizer, aligner, fate, scores, callResult>>

\* Mutant of DetectRaises: there is no outermost try.
DetectRaisesEscapes ==
    /\ fpc = "detect"
    /\ fpc' = "done"
    /\ callResult' = "raised"
    /\ fate' = Fate("detect", "raised")
    /\ UNCHANGED <<ledgerVars, galleryVars, alignVars, frame, in_frame,
                   detector, recognizer, aligner, fi, face_locations,
                   face_names, scores>>

\* setInputSize or detect raises: "except Exception: return [], []".
DetectRaises ==
    /\ fpc = "detect"
    /\ ProcessReturn(<<>>, <<>>)
    /\ fate' = Fate("detect", "raised")
    /\ UNCHANGED <<ledgerVars, galleryVars, alignVars, frame, in_frame,
                   detector, recognizer, aligner, fi, scores>>

\* The loop moves on to the next row.
NextFace(stage, how) ==
    /\ fi' = fi + 1
    /\ fate' = Fate(stage, how)
    /\ UNCHANGED <<ledgerVars, galleryVars, alignVars, frame, in_frame,
                   detector, recognizer, aligner, fpc, callResult>>

\* "if w_box <= 0 or h_box <= 0: continue"
FaceSkipped ==
    /\ fpc = "faces"
    /\ fi <= Len(in_frame)
    /\ ~BoxOK(in_frame[fi])
    /\ NextFace("box", "skipped")
    /\ UNCHANGED <<face_locations, face_names, scores>>

\* face_locations.append(box); name = "Unknown"; "if aligner:" is false;
\* face_names.append(name).
FaceNoAligner ==
    /\ fpc = "faces"
    /\ fi <= Len(in_frame)
    /\ BoxOK(in_frame[fi])
    /\ ~aligner
    /\ face_locations' = Append(face_locations, Box(in_frame[fi]))
    /\ face_names' = Append(face_names, Unknown)
    /\ NextFace("aligner", "none")
    /\ UNCHANGED scores

\* A step of lines 135-170 yields nothing usable: align returns None
\* (line 137 false, then line 186), or the blob or the embedding is None or
\* empty (face_names.append(name); continue).
FaceEmpty(stage) ==
    /\ fpc = "faces"
    /\ fi <= Len(in_frame)
    /\ BoxOK(in_frame[fi])
    /\ aligner
    /\ face_locations' = Append(face_locations, Box(in_frame[fi]))
    /\ face_names' = Append(face_names, Unknown)
    /\ NextFace(stage, "empty")
    /\ UNCHANGED scores

\* Mutant of FaceRaises: the inner try is missing, so the exception reaches
\* "except Exception: continue" of the loop body.
FaceRaisesOuter(stage) ==
    /\ fpc = "faces"
    /\ fi <= Len(in_frame)
    /\ BoxOK(in_frame[fi])
    /\ aligner
    /\ face_locations' = Append(face_locations, Box(in_frame[fi]))
    /\ face_names' = face_names
    /\ NextFace(stage, "raised")
    /\ UNCHANGED scores

\* A step of lines 145-179 raises: "except cv2.error" / "except Exception"
\* log it and line 186 appends the name, still "Unknown".
FaceRaises(stage) ==
    /\ fpc = "faces"
    /\ fi <= Len(in_frame)
    /\ BoxOK(in_frame[fi])
    /\ aligner
    /\ face_locations' = Append(face_locations, Box(in_frame[fi]))
    /\ face_names' = Append(face_names, Unknown)
    /\ NextFace(stage, "raised")
    /\ UNCHANGED scores

\* Every step works: the face is matched against the gallery (sc: its score
\* against each row of known_embeddings).
FaceMatched(sc) ==
    /\ fpc = "faces"
    /\ fi <= Len(in_frame)
    /\ BoxOK(in_frame[fi])
    /\ aligner
    /\ scores' = sc
    /\ face_locations' = Append(face_locations, Box(in_frame[fi]))
    /\ face_names' = Append(face_names, Matched(known_embeddings, known_names, sc))
    /\ NextFace("match", "done")

\* "return face_locations, face_names"
ProcessEnd ==
    /\ fpc = "faces"
    /\ fi > Len(in_frame)
    /\ ProcessReturn(face_locations, face_names)
    /\ UNCHANGED <<ledgerVars, galleryVars, alignVars, frame, in_frame,
                   detector, recognizer, aligner, fi, fate, scores>>

NextProcess ==
    \/ ProcessBegin
    \/ Detect
    \/ DetectRaises
    \/ FaceSkipped
    \/ FaceNoAligner
    \/ \E stage \in {"align", "blob", "embedding"} : FaceEmpty(stage)
    \/ \E stage \in {"blob", "forward", "normalize", "dot"} : FaceRaises(stage)
    \/ \E sc \in [1..known_embeddings.n -> ScoreValues] : FaceMatched(sc)
    \/ ProcessEnd

SpecProcess == InitProcess /\ [][NextProcess]_vars

(* ----------------------------- SpecAlign ------------------------------ *)
(* One align call; tform and warped are what the two OpenCV calls yield.    *)

\* Mutant of Align: the image size is not validated.
AlignNoSizeCheck(img, lm, tf, wp) ==
    IF img.kind = "none" \/ lm.kind = "none" THEN NoImage
    ELSE IF lm.count # LandmarkCount THEN NoImage
    ELSE IF ~lm.finite THEN NoImage
    ELSE IF tf \in {"raises", "None", "nonfinite"} THEN NoImage
    ELSE IF wp \in {"raises", "None", "empty"} THEN NoImage
    ELSE Image(desiredFaceHeight, desiredFaceWidth)

\* The body of align.  The whole body is inside "try ... except Exception:
\* return None".
Align(img, lm, tf, wp) ==
    IF img.kind = "none" \/ lm.kind = "none" THEN NoImage
    ELSE IF lm.count # LandmarkCount THEN NoImage
    ELSE IF img.h < MinImageSide \/ img.w < MinImageSide THEN NoImage
    ELSE IF ~lm.finite THEN NoImage
    ELSE IF tf \in {"raises", "None", "nonfinite"} THEN NoImage
    ELSE IF wp \in {"raises", "None", "empty"} THEN NoImage
    ELSE Image(desiredFaceHeight, desiredFaceWidth)

InitAlign ==
    /\ LedgerAtRest
    /\ GalleryAtRest
    /\ FrameAtRest
    /\ image \in {NoImage} \cup
          {Image(h, w) : h, w \in {0, MinImageSide - 1, MinImageSide}}
    /\ landmarks \in {NoLandmarks} \cup
          {Landmarks(c, f) : c \in {LandmarkCount - 1, LandmarkCount,
                                    LandmarkCount + 1},
                             f \in BOOLEAN}
    /\ tform \in {"raises", "None", "nonfinite", "finite"}
    /\ warped \in {"raises", "None", "empty", "image"}
    /\ apc = "idle"
    /\ aligned_face = NoImage

\* aligner.align(image, landmarks) returns.
AlignCall ==
    /\ apc = "idle"
    /\ apc' = "returned"
    /\ aligned_face' = Align(image, landmarks, tform, warped)
    /\ UNCHANGED <<ledgerVars, galleryVars, frameVars, image, landmarks,
                   tform, warped>>

NextAlign == AlignCall

SpecAlign == InitAlign /\ [][NextAlign]_vars

(* ------------------------------ claims -------------------------------- *)

\* Number of central rows made from local record id.
RowsFor(c, id) == Cardinality({j \in 1..Len(c) : c[j].src = id})

UnsyncedIdx(l) == {i \in 1..Len(l) : ~l[i].synced}

\* C1: a log_attendance call made while the local store works returns True
\* and appends exactly one record with synced = FALSE, whatever the state of
\* the central store; it touches neither the central table nor any central
\* connection, and it is never held up by the central store being unreachable.
C1_LogSucceedsOffline ==
    /\ [][\A d \in Devices, n \in Names :
            (log_attendance(d, n) /\ localOK) =>
               /\ logResult' = "True"
               /\ Len(ledger') = Len(ledger) + 1
               /\ SubSeq(ledger', 1, Len(ledger)) = ledger
               /\ ledger'[Len(ledger')].synced = FALSE
               /\ ledger'[Len(ledger')].device_id = d
               /\ ledger'[Len(ledger')].name = n
               /\ UNCHANGED <<central, reachable, mconn, pc>>]_vars
    /\ [](Len(ledger) < MaxRecords =>
            \A d \in Devices, n \in Names : ENABLED log_attendance(d, n))

C1_Witness ==
    /\ ~reachable
    /\ outcome[Worker] = "offline"
    /\ central = <<>>
    /\ logResult = "True"
    /\ Len(ledger) >= 1
    /\ ~ledger[Len(ledger)].synced

\* Positions of the records that were unsynced when the behaviour began.
C2_StartUnsynced == UnsyncedIdx(atStart.ledger)

\* C2: a fault-free sync_to_mysql call that starts with N unsynced records,
\* 1 <= N <= 50, ends with exactly those N records marked synced (nothing else
\* in the ledger changed) and exactly N rows added to the central table, one
\* per record and carrying its device id and name.
C2_SyncAllOfBatch ==
    LET N  == Cardinality(C2_StartUnsynced)
        c0 == Len(atStart.central)
    IN  (outcome[Worker] = "synced" /\ N >= 1 /\ N <= 50) =>
           /\ Len(ledger) = Len(atStart.ledger)
           /\ \A i \in 1..Len(ledger) :
                 ledger[i] = [atStart.ledger[i] EXCEPT !.synced = TRUE]
           /\ Len(central) = c0 + N
           /\ SubSeq(central, 1, c0) = atStart.central
           /\ \A i \in C2_StartUnsynced :
                 \E j \in (c0 + 1)..Len(central) :
                    /\ central[j].src = ledger[i].id
                    /\ central[j].device_id = ledger[i].device_id
                    /\ central[j].name = ledger[i].name
                    /\ \A j2 \in (c0 + 1)..Len(central) :
                          central[j2].src = ledger[i].id => j2 = j

C2_Witness ==
    /\ outcome[Worker] = "synced"
    /\ Cardinality(C2_StartUnsynced) = 50
    /\ Len(atStart.central) > 0
    /\ Len(central) = Len(atStart.central) + 50
    /\ \A i \in 1..Len(ledger) : ledger[i].synced

\* C3: when the connection to the central store fails, the call ends there
\* (outcome "offline") and neither its SELECT nor its failed connect changed
\* the ledger or the central table: all synced flags are as before, no central
\* row is added.
C3_OfflineNoChange ==
    /\ [][\A s \in Syncers :
            (pc[s] = "connect" /\ ~reachable /\ pc'[s] # "connect") =>
               /\ pc'[s] = "idle"
               /\ outcome'[s] = "offline"
               /\ ledger' = ledger
               /\ central' = central]_vars
    /\ [][\A s \in Syncers :
            (pc[s] = "idle" /\ pc'[s] = "connect") =>
               (ledger' = ledger /\ central' = central)]_vars

C3_Witness ==
    /\ outcome[Worker] = "offline"
    /\ pc[Worker] = "idle"
    /\ Cardinality(UnsyncedIdx(ledger)) >= 2
    /\ central = <<>>

\* C4: a sync_to_mysql call that finds no record with synced = FALSE returns
\* at once: it opens no central connection and changes neither the ledger nor
\* the central table.
C4_NoUnsyncedNoop ==
    [][\A s \in Syncers :
          (/\ pc[s] = "idle"
           /\ UnsyncedIdx(ledger) = {}
           /\ <<pc[s], outcome[s], records[s], mconn[s]>>' #
                 <<pc[s], outcome[s], records[s], mconn[s]>>) =>
             /\ pc'[s] = "idle"
             /\ outcome'[s] \in {"noop", "read_error"}
             /\ mconn'[s] = "none"
             /\ ledger' = ledger
             /\ central' = central]_vars

C4_Witness ==
    /\ outcome[Worker] = "noop"
    /\ pc[Worker] = "idle"
    /\ Len(ledger) >= 1
    /\ UnsyncedIdx(ledger) = {}

\* C5: every local record with synced = TRUE has a committed central row made
\* from it (the mark comes only after the commit of its batch).
C5_SyncedImpliesCommitted ==
    \A i \in 1..Len(ledger) :
       ledger[i].synced =>
          \E j \in 1..Len(central) :
             /\ central[j].src = ledger[i].id
             /\ central[j].device_id = ledger[i].device_id
             /\ central[j].name = ledger[i].name
             /\ central[j].timestamp = FormatTimestamp(ledger[i].timestamp)

C5_Witness ==
    /\ \E i \in 1..Len(ledger) : ledger[i].synced
    /\ \E i \in 1..Len(ledger) : ~ledger[i].synced

\* C6: delivery is at-least-once.  A call whose local bulk update fails after
\* the central commit leaves its batch synced = FALSE (with the committed rows
\* in place), and once a later call has succeeded every such record is synced
\* and has at least two central rows: the insert carries no idempotency key.
C6_AtLeastOnce ==
    /\ [](\A i \in 1..Len(ledger) :
            ledger[i].id \in orphans =>
               /\ RowsFor(central, ledger[i].id) >= 1
               /\ ledger[i].synced => RowsFor(central, ledger[i].id) >= 2
               /\ (outcome[Worker] = "synced" /\ pc[Worker] = "idle") =>
                     ledger[i].synced)
    /\ [][\A s \in Syncers :
            (pc[s] = "mark" /\ pc'[s] = "idle" /\ outcome'[s] = "error") =>
               /\ ledger' = ledger
               /\ SyncedIds(s) \subseteq orphans'
               /\ \A i \in 1..Len(ledger) :
                     ledger[i].id \in SyncedIds(s) =>
                        /\ ~ledger'[i].synced
                        /\ RowsFor(central', ledger[i].id) >= 1]_vars

C6_Witness ==
    \E i \in 1..Len(ledger) :
       /\ ledger[i].id \in orphans
       /\ ledger[i].synced
       /\ RowsFor(central, ledger[i].id) = 2

\* C7: the rows one call adds to the central table are in ascending local id,
\* which is the order the records were logged in.
C7_InsertionOrder ==
    [][central' # central =>
         /\ Len(central') > Len(central)
         /\ SubSeq(central', 1, Len(central)) = central
         /\ \A j1, j2 \in (Len(central) + 1)..Len(central') :
               j1 < j2 => central'[j1].src < central'[j2].src]_vars

C7_Witness ==
    /\ Len(ledger) = 2
    /\ ledger[1].name = "Alice" /\ ledger[2].name = "Bob"
    /\ ledger[1].synced /\ ledger[2].synced
    /\ Len(central) = 2
    /\ central[1].name = "Alice" /\ central[1].src = ledger[1].id
    /\ central[2].name = "Bob" /\ central[2].src = ledger[2].id

\* C8: no step ever removes a record, changes its id, or takes its synced
\* flag from TRUE back to FALSE.
C8_OneWay ==
    [][/\ Len(ledger') >= Len(ledger)
       /\ \A i \in 1..Len(ledger) :
             /\ ledger'[i].id = ledger[i].id
             /\ ledger[i].synced => ledger'[i].synced]_vars

C8_Witness ==
    /\ \E i \in 1..Len(ledger) : ledger[i].synced
    /\ \E i \in 1..Len(ledger) : ~ledger[i].synced
    /\ outcome[Worker] \in {"error", "offline", "read_error"}

\* C9: a reader that reports a gallery name took it from the name list that
\* was published together with the embedding array it computed its scores
\* from.
C9_ReaderSeesOneGallery ==
    (mpc = "idle" /\ matchName.kind = "name") => usedEmb.gen = usedNames.gen

\* C10: a reload() that finds an artifact missing, or cannot read or parse
\* one, returns False, and whenever reload() has returned False both live
\* references are the objects they were when the call began.
C10_FailedReloadKeepsGallery ==
    /\ []((rpc = "idle" /\ reloadResult = "False") =>
             <<known_embeddings, known_names>> = before)
    /\ [][(/\ rpc = "idle"
           /\ calls' # calls
           /\ ~(Exists(embeddings_file) /\ Exists(names_file))) =>
             (rpc' = "idle" /\ reloadResult' = "False")]_vars
    /\ [][(rpc = "load_embeddings" /\ rpc' # rpc /\ ~Readable(embeddings_file)) =>
             (rpc' = "idle" /\ reloadResult' = "False")]_vars
    /\ [][(rpc = "load_names" /\ rpc' # rpc /\ ~Readable(names_file)) =>
             (rpc' = "idle" /\ reloadResult' = "False")]_vars

C10_Witness ==
    /\ rpc = "idle"
    /\ reloadResult = "False"
    /\ known_embeddings.n > 0
    /\ known_names.n > 0
    /\ Readable(embeddings_file)
    /\ embeddings_file.n # known_embeddings.n
    /\ names_file = Corrupt

\* C11: whenever no reload() is under way, the live name list and the live
\* embedding array have the same length.
C11_EqualLength ==
    rpc = "idle" => known_embeddings.n = known_names.n

\* C16: a log_attendance call made while the local store is unavailable
\* returns False (it neither raises nor reports success) and leaves the ledger
\* as it was: no record is added, none is changed.
C16_LogFailsClosed ==
    [][\A d \in Devices, n \in Names :
          (log_attendance(d, n) /\ ~localOK) =>
             /\ logResult' = "False"
             /\ ledger' = ledger
             /\ central' = central]_vars

C16_Witness ==
    /\ ~localOK
    /\ logResult = "False"
    /\ Len(ledger) >= 1
    /\ pc[Worker] = "idle"

\* C19: when an INSERT or the commit of the central transaction fails, the
\* call ends with outcome "error", the central table is as it was before the
\* call opened its transaction (no row of the batch is visible), no local
\* record changed, and the records of the batch are still the first ones the
\* next SELECT returns.
C19_AllOrNothing ==
    [][\A s \in Syncers :
          (pc[s] = "upload" /\ pc'[s] = "idle") =>
             /\ outcome'[s] = "error"
             /\ central' = central
             /\ ledger' = ledger
             /\ \A k \in 1..Len(records[s]) :
                   /\ RowsFor(central', records[s][k].id) =
                         RowsFor(central, records[s][k].id)
                   /\ \E i \in 1..Len(ledger') :
                         /\ ledger'[i].id = records[s][k].id
                         /\ ~ledger'[i].synced
             /\ SubSeq(SelectUnsynced(ledger'), 1, Len(records[s])) = records[s]]_vars

\* The only failure so far hit the central transaction (the local store never
\* went away), with two records in the batch.
C19_Witness ==
    /\ outcome[Worker] = "error"
    /\ pc[Worker] = "idle"
    /\ outages = 0
    /\ central = <<>>
    /\ Cardinality(UnsyncedIdx(ledger)) >= 2

\* Positions of the BatchLimit oldest unsynced records of l.
C20_Oldest(l) ==
    {i \in UnsyncedIdx(l) :
        Cardinality({j \in UnsyncedIdx(l) : j < i}) < BatchLimit}

\* C20: one sync_to_mysql call adds at most 50 central rows and marks at most
\* 50 local records: the rows it commits are made from exactly the 50 oldest
\* unsynced records (all of them when there are fewer), the records it marks
\* are exactly those, and every other record keeps its flag and gets no row.
C20_BoundedBatch ==
    /\ [][central' # central =>
            LET B   == C20_Oldest(ledger)
                new == (Len(central) + 1)..Len(central')
            IN  /\ Cardinality(B) <= 50
                /\ Len(central') = Len(central) + Cardinality(B)
                /\ SubSeq(central', 1, Len(central)) = central
                /\ {central'[j].src : j \in new} = {ledger[i].id : i \in B}]_vars
    /\ [][ledger' # ledger =>
            /\ Len(ledger') = Len(ledger)
            /\ Cardinality(UnsyncedIdx(ledger) \ UnsyncedIdx(ledger')) <= 50
            /\ \A i \in 1..Len(ledger) :
                  ledger'[i] = IF i \in C20_Oldest(ledger)
                               THEN [ledger[i] EXCEPT !.synced = TRUE]
                               ELSE ledger[i]]_vars

C20_Witness ==
    /\ outcome[Worker] = "synced"
    /\ Cardinality(C2_StartUnsynced) = 52
    /\ Len(central) = Len(atStart.central) + 50
    /\ UnsyncedIdx(ledger) = {51, 52}
    /\ \A j \in 1..Len(central) : central[j].src <= 50

\* The last sync_to_mysql call to end met no fault: it returned after its
\* bulk update, or at once because it found nothing to send.
C14_FaultFreeEnd ==
    pc[Worker] = "idle" /\ outcome[Worker] \in {"synced", "noop"}

\* sync_to_mysql is called whenever it is not running.
C14_Invoke == SyncSelect(Worker) \/ SyncSelectError(Worker)

\* C14: if sync_to_mysql keeps being called, from some point on no record is
\* logged, and again and again a call ends without having met a fault, then
\* from some point on every record of the ledger is synced.
C14_EventualSync ==
    (/\ WF_vars(C14_Invoke)
     /\ <>[][Len(ledger') = Len(ledger)]_vars
     /\ []<>C14_FaultFreeEnd)
       => <>[](\A i \in 1..Len(ledger) : ledger[i].synced)

\* Every record is synced although an earlier call failed after its commit.
C14_Witness ==
    /\ Len(ledger) = MaxLiveRecords
    /\ \A i \in 1..Len(ledger) : ledger[i].synced
    /\ outcome[Worker] = "synced"
    /\ orphans # {}

\* The call went through the loop over the detected rows and returned at
\* line 192.
C12_Looped == fpc = "done" /\ fate.stage \notin {"frame", "models", "detect"}

\* C12 as claimed: recognize_faces reports exactly one (box, name) pair for
\* every detected row whose width and height are strictly positive.
C12_PairPerPositiveBox ==
    C12_Looped =>
       /\ Len(face_locations) =
             Cardinality({i \in 1..Len(in_frame) :
                             in_frame[i].w > 0 /\ in_frame[i].h > 0})
       /\ Len(face_names) = Len(face_locations)

\* C12, amended: recognize_faces reports exactly one (box, name) pair, in
\* detection order, for every detected row whose width and height are
\* strictly positive once truncated to whole pixels, and none for the other
\* rows; a face whose align, blob, forward, normalize or match step yields
\* nothing or raises gets the name "Unknown"; the names reported for earlier
\* faces stay as they were, and the two lists have equal length between faces
\* and at the end.
C12_FaceIsolation ==
    /\ [](C12_Looped =>
            LET ok == SelectSeq(in_frame, BoxOK)
            IN  /\ face_locations = [k \in 1..Len(ok) |-> Box(ok[k])]
                /\ Len(face_names) = Len(face_locations))
    /\ [](fpc = "faces" => Len(face_names) = Len(face_locations))
    /\ [][(fpc = "faces" /\ fi' = fi + 1) =>
            IF Box(in_frame[fi]).w > 0 /\ Box(in_frame[fi]).h > 0
            THEN /\ face_locations' = Append(face_locations, Box(in_frame[fi]))
                 /\ Len(face_names') = Len(face_names) + 1
                 /\ SubSeq(face_names', 1, Len(face_names)) = face_names
                 /\ fate'.how # "done" =>
                       face_names'[Len(face_names')] = Unknown
            ELSE /\ face_locations' = face_locations
                 /\ face_names' = face_names]_vars

\* Of two faces the first was recognised and the second raised.
C12_Witness ==
    /\ fpc = "done"
    /\ Len(in_frame) = 2
    /\ fate = Fate("forward", "raised")
    /\ Len(face_locations) = 2
    /\ Len(face_names) = 2
    /\ face_names[1].kind = "name"
    /\ face_names[2] = Unknown

\* C13: the name reported for a face that was matched is the name at the
\* first index holding the maximum score if that maximum is strictly greater
\* than RECOGNITION_THRESHOLD, and "Unknown" otherwise (also when the gallery
\* is empty).
C13_MatchRule ==
    (fpc \in {"faces", "done"} /\ fate = Fate("match", "done")) =>
       LET name  == face_names[Len(face_names)]
           N     == Len(scores)
           first == CHOOSE i \in 1..N :
                       /\ \A j \in 1..N : scores[j] <= scores[i]
                       /\ \A j \in 1..N : scores[j] = scores[i] => i <= j
       IN  IF N > 0 /\ \E i \in 1..N : scores[i] > 70
           THEN name = NameAt(known_names, first) /\ first <= known_names.n
           ELSE name = Unknown

\* C15: recognize_faces always returns a pair of lists, never raises; on an
\* empty frame, a frame under 10x10, or a failure of the detector (outside
\* the per-face loop) both lists are empty.
C15_NothingEscapes ==
    /\ callResult \in {"none", "returned"}
    /\ fpc = "done" => callResult = "returned"
    /\ (/\ fpc = "done"
        /\ \/ frame.kind = "none"
           \/ frame.h * frame.w = 0
           \/ frame.h < 10
           \/ frame.w < 10
           \/ fate.stage = "detect") =>
          (face_locations = <<>> /\ face_names = <<>>)

\* The detector raised on a frame that holds a well-formed face.
C15_Witness ==
    /\ fpc = "done"
    /\ fate = Fate("detect", "raised")
    /\ \E i \in 1..Len(in_frame) : BoxOK(in_frame[i])
    /\ callResult = "returned"
    /\ face_locations = <<>>
    /\ face_names = <<>>

\* C17: align returns (it does not raise); it returns None when the image is
\* None or under 10 in a dimension, when the landmarks are not exactly 5 or
\* not all finite, when no transform is estimated or the transform is not
\* finite; and whatever it returns is None or an image of 112 x 112.
C17_AlignTotal ==
    /\ apc \in {"idle", "returned"}
    /\ apc = "returned" =>
          /\ (\/ image.kind = "none"
              \/ image.h < 10
              \/ image.w < 10
              \/ landmarks.kind = "none"
              \/ landmarks.count # 5
              \/ ~landmarks.finite
              \/ tform \in {"None", "nonfinite"}) => aligned_face = NoImage
          /\ \/ aligned_face = NoImage
             \/ /\ aligned_face.kind = "image"
                /\ aligned_face.h = 112
                /\ aligned_face.w = 112

\* Only the image is at fault, and only in its height.
C17_Witness ==
    /\ apc = "returned"
    /\ image = Image(MinImageSide - 1, MinImageSide)
    /\ landmarks = Landmarks(LandmarkCount, TRUE)
    /\ tform = "finite"
    /\ warped = "image"
    /\ aligned_face = NoImage

\* C18 as claimed: with the models missing, recognize_faces returns normally
\* and reports every face of the frame, each with the name "Unknown".
C18_EveryFaceUnknown ==
    (fpc = "done" /\ (detector = "none" \/ recognizer = "none")) =>
       /\ callResult = "returned"
       /\ Len(face_names) = Len(SelectSeq(in_frame, BoxOK))
       /\ \A k \in 1..Len(face_names) : face_names[k] = Unknown

\* C18, amended: with the models missing, recognize_faces returns normally
\* and reports no face at all (both lists are empty), so no gallery name is
\* ever returned.
C18_NoModelsNoFaces ==
    (fpc = "done" /\ (detector = "none" \/ recognizer = "none")) =>
       /\ callResult = "returned"
       /\ face_locations = <<>>
       /\ face_names = <<>>

\* Models missing, two well-formed faces in the frame, a gallery to match.
C18_Witness ==
    /\ fpc = "done"
    /\ detector = "none"
    /\ Len(in_frame) = 2
    /\ \A i \in 1..Len(in_frame) : BoxOK(in_frame[i])
    /\ known_embeddings.n >= 1
    /\ known_names.n >= 1
    /\ face_names = <<>>
    /\ face_locations = <<>>

\* C21: the central table never holds two rows made from the same local
\* record, also when two sync_to_mysql calls overlap.
C21_NoDuplicateRows ==
    \A i \in 1..Len(ledger) : RowsFor(central, ledger[i].id) <= 1

\* C22: a log_attendance call that returns True appends exactly one record,
\* unsynced and with an id greater than every id in the ledger, and leaves
\* every existing record as it was; no two records ever share an id.
C22_AppendOnly ==
    /\ [][\A d \in Devices, n \in Names :
            (log_attendance(d, n) /\ logResult' = "True") =>
               /\ Len(ledger') = Len(ledger) + 1
               /\ \A i \in 1..Len(ledger) :
                     /\ ledger'[i] = ledger[i]
                     /\ ledger'[Len(ledger')].id > ledger[i].id
               /\ ledger'[Len(ledger')].synced = FALSE]_vars
    /\ [](\A i, j \in 1..Len(ledger) : ledger[i].id = ledger[j].id => i = j)

\* A record was logged after an older one had been synced.
C22_Witness ==
    /\ logResult = "True"
    /\ Len(ledger) >= 2
    /\ ledger[1].synced
    /\ ~ledger[Len(ledger)].synced
    /\ ledger[Len(ledger)].id > ledger[Len(ledger) - 1].id
    /\ RowsFor(central, ledger[Len(ledger)].id) = 0

\* The ids a call fetched with its SELECT.
C23_Read(s) == {records[s][k].id : k \in 1..Len(records[s])}

\* C23: with log_attendance calls interleaved with a running sync_to_mysql
\* call, what the call fetched is fixed by its SELECT (the unsynced records of
\* that moment) and stays so until it returns; the rows it commits are made
\* from exactly those ids and the records it marks are exactly those; a
\* record logged after the SELECT gets no row and no mark from this call,
\* and after the call it is among the records the next SELECT returns.
C23_MarksWhatItRead ==
    /\ [][\A s \in Syncers :
            (pc[s] = "idle" /\ pc'[s] = "connect") =>
               C23_Read(s)' = {ledger[i].id : i \in UnsyncedIdx(ledger)}]_vars
    /\ [][\A s \in Syncers :
            (pc[s] # "idle" /\ pc'[s] # "idle") => records'[s] = records[s]]_vars
    /\ [][\A s \in Syncers :
            (pc[s] = "upload" /\ pc'[s] = "mark") =>
               /\ {central'[j].src : j \in (Len(central) + 1)..Len(central')}
                     = C23_Read(s)
               /\ Len(central') = Len(central) + Len(records[s])]_vars
    /\ [][\A s \in Syncers :
            (pc[s] = "mark" /\ pc'[s] = "idle" /\ outcome'[s] = "synced") =>
               /\ Len(ledger') = Len(ledger)
               /\ \A i \in 1..Len(ledger) :
                     /\ ledger[i].id \in C23_Read(s) => ledger'[i].synced
                     /\ ledger[i].id \notin C23_Read(s) =>
                           /\ ledger'[i] = ledger[i]
                           /\ ~ledger[i].synced =>
                                 /\ RowsFor(central', ledger[i].id) = 0
                                 /\ \E k \in 1..Len(SelectUnsynced(ledger')) :
                                       SelectUnsynced(ledger')[k].id =
                                          ledger[i].id]_vars

\* The call has committed the one record it fetched; a second record, logged
\* after its SELECT, is unsynced and has no central row.
C23_Witness ==
    /\ pc[Worker] = "mark"
    /\ Len(records[Worker]) = 1
    /\ Len(ledger) = 2
    /\ records[Worker][1].id = ledger[1].id
    /\ ~ledger[2].synced
    /\ RowsFor(central, ledger[1].id) = 1
    /\ RowsFor(central, ledger[2].id) = 0

====
